---- MODULE Spec2Model ----
(***************************************************************************)
(* Model of the public-weather package: the ERA5 extractor                 *)
(* (weather/api/extractor.py), the NetCDF post-processing functions        *)
(* (weather/api/functions.py) and the WeatherData facade                   *)
(* (weather/api/weather_api.py).                                           *)
(*                                                                         *)
(* Numbers are exact rationals [num, den] with den > 0; the missing value  *)
(* (pandas NaN) is the record with den = 0.  Timestamps are integers.      *)
(***************************************************************************)
EXTENDS Integers, Sequences, FiniteSets, TLC

VARIABLES
  ncFile,            \* the raw NetCDF file a functions.py call is given
  ncCall,            \* the functions.py call made and what it returned
  site,              \* the location the extractor is built for
  ex,                \* the Era5DataExtractor object
  fs,                \* directories and files on disk
  retrieveCount,     \* number of retrieve calls per target path
  requests,          \* the retrieve requests issued so far
  dl,                \* the last download_data call
  okCalls,           \* download_data calls that returned, per year
  retrieveFaithful,  \* every retrieve so far created its target file
  ops,               \* number of extractor operations so far
  pathCalls,         \* arguments of the create_saving_path calls made on
                     \* the extractor since its construction
  tbl,               \* the table a weather_api.py table function is given
  tblCall,           \* the table function called and what it returned
  wd,                \* the WeatherData object
  csvFiles,          \* the harmonized files written: path -> what wrote it
  runs,              \* the get_weather_data runs that saved a result
  wcall,             \* the last get_weather_data call
  wops               \* number of WeatherData operations so far

netcdfVars == <<ncFile, ncCall>>
era5Vars == <<site, ex, fs, retrieveCount, requests, dl, okCalls,
              retrieveFaithful, ops, pathCalls>>
tableVars == <<tbl, tblCall>>
weatherVars == <<wd, csvFiles, runs, wcall, wops>>
vars == <<netcdfVars, era5Vars, tableVars, weatherVars>>

(***************************************************************************)
(* Bounds of the model.                                                    *)
(***************************************************************************)
\* longest raw series without an experiment-version column
MaxLen == 4
\* number of timestamps of a raw table with an experiment-version column
MaxExpTimes == 2
\* largest |latitude|, |longitude| of a site, in hundredths of a degree
MaxCoord == 1
\* number of simulation years
NumYears == 2
\* number of extractor operations in a behaviour
MaxOps == 4
\* number of half-hour slots of the (scaled-down) simulation year
SlotsPerYear == 3
\* most rows of a satellite-hourly provider table
MaxRows == 2
\* number of WeatherData operations in a behaviour
MaxWeatherOps == 3

(***************************************************************************)
(* Exact arithmetic with a missing value.                                  *)
(***************************************************************************)
RECURSIVE Gcd(_, _)
Gcd(a, b) == IF b = 0 THEN a ELSE Gcd(b, a % b)

Abs(n) == IF n < 0 THEN -n ELSE n

NaN == [num |-> 0, den |-> 0]

IsNaN(v) == v.den = 0

\* the rational n/d (d # 0) in lowest terms with a positive denominator
Rat(n, d) ==
  LET g == Gcd(Abs(n), Abs(d))
      s == IF d < 0 THEN -1 ELSE 1
  IN [num |-> s * (n \div g), den |-> s * (d \div g)]

Num(n) == [num |-> n, den |-> 1]

\* a - b of two cells; a missing operand gives a missing result
Sub(a, b) ==
  IF IsNaN(a) \/ IsNaN(b) THEN NaN
  ELSE Rat(a.num * b.den - b.num * a.den, a.den * b.den)

\* a + b of two cells; a missing operand gives a missing result
Add(a, b) ==
  IF IsNaN(a) \/ IsNaN(b) THEN NaN
  ELSE Rat(a.num * b.den + b.num * a.den, a.den * b.den)

\* a / k for a positive integer k
DivInt(a, k) == IF IsNaN(a) THEN NaN ELSE Rat(a.num, a.den * k)

\* a < 0 as pandas compares: a comparison with a missing value is False
LtZero(a) == ~IsNaN(a) /\ a.num < 0

(***************************************************************************)
(* structure/enums.py, structure/schema.py                                 *)
(***************************************************************************)
ExtractFile == {"TEMPERATURE", "SOLARRADIATION"}

column_name(variable) ==
  IF variable = "TEMPERATURE" THEN "t2m" ELSE "ssr"

filename_key(variable) ==
  IF variable = "TEMPERATURE" THEN "2m_temperature"
  ELSE "surface_net_solar_radiation"

DATEINDEX == "Time"
SOLARIRRADIANCE == "Global irradiance (W/m2)"
OAT == "Air temperature (deg C)"

\* seconds in the hourly accumulation step
SecondsPerHour == 3600
\* 273.15 K in hundredths of a kelvin
KelvinOffsetCenti == 27315

(***************************************************************************)
(* Single-column data frames: index and values are sequences of the same   *)
(* length.                                                                 *)
(***************************************************************************)
Frame(idx, vals, col, idxName, tz) ==
  [index |-> idx, values |-> vals, columns |-> <<col>>,
   indexName |-> idxName, tz |-> tz]

\* pd.DataFrame(columns=[col])
EmptyFrame(col) == Frame(<<>>, <<>>, col, "None", "naive")

Ok(frame) == [status |-> "ok", frame |-> frame, loaded |-> TRUE]
Raised(err, loaded) ==
  [status |-> err, frame |-> EmptyFrame("None"), loaded |-> loaded]

RECURSIVE SortedSeq(_)
SortedSeq(S) ==
  IF S = {} THEN <<>>
  ELSE LET m == CHOOSE x \in S : \A y \in S : x <= y
       IN <<m>> \o SortedSeq(S \ {m})

\* the rows of one experiment version, indexed by time:
\* temp_dataf.loc[expver == v, ['time', column]].set_index('time')
SelectExpver(rows, v) ==
  LET keep == {i \in 1..Len(rows) : rows[i].expver = v}
  IN [t \in {rows[i].time : i \in keep} |->
        (CHOOSE i \in keep : rows[i].time = t) ]

\* df1.combine_first(df2) of two time-indexed columns given as functions
\* time -> row number: the union of the indexes, df1's value where it is
\* not missing, else df2's value (missing where df2 has no row)
combine_first_wrong(rows, df1, df2) ==
  LET idx == SortedSeq(DOMAIN df1 \cup DOMAIN df2)
      At(df, t) == IF t \in DOMAIN df THEN rows[df[t]].val ELSE NaN
  IN [index |-> idx,
      values |-> [i \in 1..Len(idx) |->
                    IF ~IsNaN(At(df2, idx[i])) THEN At(df2, idx[i])
                    ELSE At(df1, idx[i])]]

combine_first(rows, df1, df2) ==
  LET idx == SortedSeq(DOMAIN df1 \cup DOMAIN df2)
      At(df, t) == IF t \in DOMAIN df THEN rows[df[t]].val ELSE NaN
  IN [index |-> idx,
      values |-> [i \in 1..Len(idx) |->
                    IF ~IsNaN(At(df1, idx[i])) THEN At(df1, idx[i])
                    ELSE At(df2, idx[i])]]

\* load_single_netcdf_file(path, target_variable); file is the state of the
\* path: whether it exists and the table xarray reads from it
load_single_netcdf_file(file, target_variable) ==
  IF ~file.exists THEN Raised("FileNotFoundError", TRUE)
  ELSE IF file.raw.var # column_name(target_variable)
  THEN Raised("KeyError", TRUE)
  ELSE IF file.raw.hasExpver
  THEN LET rows == file.raw.rows
           df1 == SelectExpver(rows, 1)
           df2 == SelectExpver(rows, 5)
           m == combine_first(rows, df1, df2)
       IN Ok(Frame(m.index, m.values, column_name(target_variable),
                   "time", "UTC"))
  ELSE LET rows == file.raw.rows
       IN Ok(Frame([i \in 1..Len(rows) |-> rows[i].time],
                   [i \in 1..Len(rows) |-> rows[i].val],
                   column_name(target_variable), "time", "UTC"))

\* apply_outputdataschema(dataf, target_variable)
apply_outputdataschema(dataf, target_variable) ==
  IF target_variable = "TEMPERATURE"
  THEN [dataf EXCEPT !.indexName = DATEINDEX, !.columns = <<OAT>>]
  ELSE IF target_variable = "SOLARRADIATION"
  THEN [dataf EXCEPT !.indexName = DATEINDEX, !.columns = <<SOLARIRRADIANCE>>]
  ELSE dataf

\* radiation_data - radiation_data.shift(); fillna(0); [< 0] = 0; / 3600
Shift(vals) ==
  [i \in 1..Len(vals) |-> IF i = 1 THEN NaN ELSE vals[i - 1]]

FillNa(vals, k) ==
  [i \in 1..Len(vals) |-> IF IsNaN(vals[i]) THEN Num(k) ELSE vals[i]]

ClampNegative_wrong(vals) == vals

ClampNegative(vals) ==
  [i \in 1..Len(vals) |-> IF LtZero(vals[i]) THEN Num(0) ELSE vals[i]]

Dedifference(vals) ==
  LET sh == Shift(vals)
      diff == [i \in 1..Len(vals) |-> Sub(vals[i], sh[i])]
      clamped == ClampNegative(FillNa(diff, 0))
  IN [i \in 1..Len(vals) |-> DivInt(clamped[i], SecondsPerHour)]

\* get_radiation_data(path_netcdf_file)
get_radiation_data_wrong(file) ==
  LET r == load_single_netcdf_file(file, "SOLARRADIATION")
  IN IF r.status # "ok" THEN r
     ELSE [r EXCEPT !.frame = apply_outputdataschema(
              [r.frame EXCEPT !.values = Dedifference(r.frame.values)],
              "SOLARRADIATION")]

get_radiation_data(file) ==
  IF file.exists
  THEN LET r == load_single_netcdf_file(file, "SOLARRADIATION")
       IN IF r.status # "ok" THEN r
          ELSE [r EXCEPT !.frame = apply_outputdataschema(
                   [r.frame EXCEPT !.values = Dedifference(r.frame.values)],
                   "SOLARRADIATION")]
  ELSE [status |-> "ok", loaded |-> FALSE,
        frame |-> apply_outputdataschema(
                    EmptyFrame(column_name("SOLARRADIATION")),
                    "SOLARRADIATION")]

\* temperature - 273.15
KelvinToCelsius(v) ==
  IF IsNaN(v) THEN NaN
  ELSE Sub(v, Rat(KelvinOffsetCenti, 100))

\* get_temperature_data(path_netcdf_file)
get_temperature_data(file) ==
  IF file.exists
  THEN LET r == load_single_netcdf_file(file, "TEMPERATURE")
       IN IF r.status # "ok" THEN r
          ELSE [r EXCEPT !.frame = apply_outputdataschema(
                   [r.frame EXCEPT !.values =
                      [i \in 1..Len(r.frame.values) |->
                         KelvinToCelsius(r.frame.values[i])]],
                   "TEMPERATURE")]
  ELSE [status |-> "ok", loaded |-> FALSE,
        frame |-> apply_outputdataschema(
                    EmptyFrame(column_name("TEMPERATURE")), "TEMPERATURE")]

(***************************************************************************)
(* Raw files the functions are applied to.                                 *)
(***************************************************************************)
\* cumulative values (J/m2, or K) a file without expver may hold
RawValues == {NaN, Num(0), Num(1800), Num(SecondsPerHour),
              Num(2 * SecondsPerHour), Num(3 * SecondsPerHour)}

\* values of the rows of experiment versions 1 and 5
ExpValues == {NaN, Num(SecondsPerHour), Num(2 * SecondsPerHour)}

\* experiment versions a file may hold: 1 (final), 5 (preliminary), another
Expvers == {1, 5, 2}

ExpTimes == 1..MaxExpTimes

\* a table without an experiment-version column: one row per hour
PlainTable(n, f, c) ==
  [hasExpver |-> FALSE, var |-> c,
   rows |-> [i \in 1..n |-> [time |-> i, expver |-> 0, val |-> f[i]]]]

\* rows (time, expver) of a table with an experiment-version column, in
\* the order xarray lists them
RowOrder(P) ==
  LET key(p) == p[1] * 10 + p[2]
      ks == SortedSeq({key(p) : p \in P})
  IN [i \in 1..Len(ks) |-> CHOOSE p \in P : key(p) = ks[i]]

ExpTable(P, f, c) ==
  LET ord == RowOrder(P)
  IN [hasExpver |-> TRUE, var |-> c,
      rows |-> [i \in 1..Len(ord) |->
                  [time |-> ord[i][1], expver |-> ord[i][2],
                   val |-> f[ord[i]]]]]

ExpCellValues(p) == IF p[2] \in {1, 5} THEN ExpValues ELSE {Num(7)}

NetcdfInputs ==
  /\ ncCall = [op |-> "none", result |-> Raised("none", FALSE)]
  /\ \/ ncFile = [exists |-> FALSE,
                  raw |-> [hasExpver |-> FALSE, var |-> "ssr", rows |-> <<>>]]
     \/ \E n \in 0..MaxLen, c \in {"ssr", "t2m"} :
          \E f \in [1..n -> RawValues] :
             ncFile = [exists |-> TRUE, raw |-> PlainTable(n, f, c)]
     \/ \E P \in SUBSET (ExpTimes \X Expvers), c \in {"ssr", "t2m"} :
          \E f \in [P -> ExpValues \cup {Num(7)}] :
             /\ \A p \in P : f[p] \in ExpCellValues(p)
             /\ ncFile = [exists |-> TRUE, raw |-> ExpTable(P, f, c)]

GetRadiationData ==
  /\ ncCall.op = "none"
  /\ ncCall' = [op |-> "get_radiation_data",
                result |-> get_radiation_data(ncFile)]
  /\ UNCHANGED <<ncFile, era5Vars, tableVars, weatherVars>>

GetTemperatureData ==
  /\ ncCall.op = "none"
  /\ ncCall' = [op |-> "get_temperature_data",
                result |-> get_temperature_data(ncFile)]
  /\ UNCHANGED <<ncFile, era5Vars, tableVars, weatherVars>>

LoadSingleNetcdfFile ==
  /\ ncCall.op = "none"
  /\ ncFile.exists
  /\ \E target \in ExtractFile :
       ncCall' = [op |-> "load_single_netcdf_file",
                  result |-> load_single_netcdf_file(ncFile, target)]
  /\ UNCHANGED <<ncFile, era5Vars, tableVars, weatherVars>>

(***************************************************************************)
(* api/extractor.py: Era5DataExtractor.  Paths are strings; coordinates    *)
(* are integers in hundredths of a degree.                                 *)
(***************************************************************************)
\* first simulation year
FirstYear == 2020
Years == FirstYear..(FirstYear + NumYears - 1)

Coordinates == (0 - MaxCoord)..MaxCoord

\* the 0.01 degree buffer of the bounding box, in hundredths of a degree
BoxBuffer == 1

\* the saving path handed to the extractor
BasePath == "data"

\* Path.exists()
exists_wrong(files, path) == FALSE

exists(files, path) == path \in files

\* Era5DataExtractor.get_box_coordinates
get_box_coordinates_wrong(location) ==
  <<location.latitude, location.longitude,
    location.latitude - BoxBuffer, location.longitude - BoxBuffer>>

get_box_coordinates(location) ==
  LET box_coordinates == <<location.latitude, location.longitude>>
  IN box_coordinates \o
       [i \in 1..Len(box_coordinates) |->
          IF box_coordinates[i] > 0 THEN box_coordinates[i] - BoxBuffer
          ELSE box_coordinates[i] + BoxBuffer]

\* Era5DataExtractor.create_saving_path(saving_path): the directory of the
\* raw files, made with its parents if absent
NetcdfDir(base, location) ==
  base \o "/weather_data/" \o location.name \o "_netcdf_data"

\* the target of download_data for one variable and year
TargetPath(e, variable, year) ==
  e.saving_path \o "/" \o
    (e.location.name \o "_" \o variable \o "_" \o ToString(year) \o ".nc")

\* api_client.retrieve(dataset, request, target): the call is counted and
\* logged; it creates the target or raises
Retrieve(st, request, target, outcome) ==
  [st EXCEPT
     !.count = [p \in DOMAIN st.count \cup {target} |->
                  IF p = target
                  THEN (IF p \in DOMAIN st.count THEN st.count[p] ELSE 0) + 1
                  ELSE st.count[p]],
     !.requests = st.requests \cup {request},
     !.issued = Append(st.issued, request.variable),
     !.files = IF outcome = "created" THEN st.files \cup {target}
               ELSE st.files,
     !.faithful = st.faithful /\ outcome = "created",
     !.status = IF outcome = "created" THEN "ok" ELSE "RetrieveError"]

\* the loop of download_data over variables_to_extract, from variable i on;
\* an exception ends it
RECURSIVE DownloadLoop(_, _, _, _, _)
DownloadLoop(e, st, i, year, outcome) ==
  IF i > Len(e.variables_to_extract) \/ st.status # "ok" THEN st
  ELSE LET variable == e.variables_to_extract[i]
           temp_full_path == TargetPath(e, variable, year)
       IN IF ~exists(st.files, temp_full_path)
          THEN IF e.api_client = "None"
               THEN [st EXCEPT !.status = "AttributeError"]
               ELSE DownloadLoop(e,
                      Retrieve(st,
                               [dataset |-> "reanalysis-era5-land",
                                format |-> "netcdf",
                                variable |-> variable,
                                year |-> ToString(year),
                                area |-> get_box_coordinates(e.location),
                                target |-> temp_full_path],
                               temp_full_path, outcome[variable]),
                      i + 1, year, outcome)
          ELSE DownloadLoop(e, st, i + 1, year, outcome)

NoExtractor ==
  [state |-> "none", api_client |-> "None", saving_path |-> BasePath,
   variables_to_extract |-> <<>>, location |-> site,
   clientOutcome |-> "none"]

NoDownload ==
  [year |-> 0, status |-> "none", issued |-> <<>>, before |-> {},
   nth |-> 0, client |-> "None"]

IdleEra5 ==
  /\ site = [name |-> "Demo_site", latitude |-> 0, longitude |-> 0]
  /\ ex = NoExtractor
  /\ fs = [dirs |-> {}, files |-> {}]
  /\ retrieveCount = << >>
  /\ requests = {}
  /\ dl = NoDownload
  /\ okCalls = [y \in Years |-> 0]
  /\ retrieveFaithful = TRUE
  /\ ops = 0
  /\ pathCalls = << >>

InitEra5Model ==
  /\ \E lat \in Coordinates, lon \in Coordinates :
       site = [name |-> "Demo_site", latitude |-> lat, longitude |-> lon]
  /\ ex = NoExtractor
  /\ fs = [dirs |-> {}, files |-> {}]
  /\ retrieveCount = << >>
  /\ requests = {}
  /\ dl = NoDownload
  /\ okCalls = [y \in Years |-> 0]
  /\ retrieveFaithful = TRUE
  /\ ops = 0
  /\ pathCalls = << >>

\* Era5DataExtractor(location, api_client, saving_path): __post_init__ with
\* create_api_client and create_saving_path.  clientOutcome is what
\* cdsapi.Client(...) does: returns a client, raises AssertionError, or
\* raises another exception ("except AssertionError" does not catch it, and
\* the constructor raises before create_saving_path).
PostInit(location, base, given, clientOutcome) ==
  IF ~given /\ clientOutcome = "Exception"
  THEN [state |-> "raised", api_client |-> "None", saving_path |-> base,
        variables_to_extract |-> <<>>, location |-> location,
        clientOutcome |-> clientOutcome]
  ELSE [state |-> "ok",
        api_client |-> IF given \/ clientOutcome = "ok" THEN "client"
                       ELSE "None",
        saving_path |-> NetcdfDir(base, location),
        variables_to_extract |-> <<filename_key("SOLARRADIATION"),
                                   filename_key("TEMPERATURE")>>,
        location |-> location,
        clientOutcome |-> IF given THEN "given" ELSE clientOutcome]

\* the directories path_netcdf_files.mkdir(parents=True, exist_ok=True)
\* leaves on disk
MkdirParents(dirs, e, base) ==
  IF e.state = "ok"
  THEN dirs \cup {base \o "/weather_data", e.saving_path}
  ELSE dirs

ClientOutcomes == {"ok", "AssertionError", "Exception"}

Construct(given, clientOutcome) ==
  /\ ops < MaxOps
  /\ ops' = ops + 1
  /\ ex' = PostInit(site, BasePath, given, clientOutcome)
  /\ fs' = [fs EXCEPT !.dirs = MkdirParents(@, ex', BasePath)]
  /\ pathCalls' = << >>
  /\ UNCHANGED <<site, retrieveCount, requests, dl, okCalls,
                 retrieveFaithful, netcdfVars, tableVars, weatherVars>>

ConstructExtractor ==
  \E given \in BOOLEAN, clientOutcome \in ClientOutcomes :
     Construct(given, clientOutcome)

RetrieveOutcomes ==
  [{filename_key(v) : v \in ExtractFile} -> {"created", "failed"}]

\* Era5DataExtractor.download_data(year)
DownloadData ==
  /\ ops < MaxOps
  /\ ex.state = "ok"
  /\ \E year \in Years, outcome \in RetrieveOutcomes :
       LET st == DownloadLoop(ex,
                   [files |-> fs.files, count |-> retrieveCount,
                    requests |-> requests, issued |-> <<>>,
                    faithful |-> retrieveFaithful, status |-> "ok"],
                   1, year, outcome)
       IN /\ fs' = [fs EXCEPT !.files = st.files]
          /\ retrieveCount' = st.count
          /\ requests' = st.requests
          /\ retrieveFaithful' = st.faithful
          /\ okCalls' = [okCalls EXCEPT ![year] =
                           IF st.status = "ok" THEN @ + 1 ELSE @]
          /\ dl' = [year |-> year, status |-> st.status,
                    issued |-> st.issued, before |-> fs.files,
                    nth |-> okCalls[year] + 1, client |-> ex.api_client]
  /\ ops' = ops + 1
  /\ UNCHANGED <<site, ex, pathCalls, netcdfVars, tableVars, weatherVars>>

\* Era5DataExtractor.create_saving_path(saving_path) on a constructed
\* extractor: without an argument ("None") the directory is built under
\* self.saving_path, which the constructor has already set to the directory
\* of the raw files; mkdir(parents=True, exist_ok=True) makes it with its
\* parents, and self.saving_path becomes the new directory
create_saving_path(e, dirs, saving_path) ==
  LET from == IF saving_path = "None" THEN e.saving_path ELSE saving_path
      path_netcdf_files == NetcdfDir(from, e.location)
  IN [ex |-> [e EXCEPT !.saving_path = path_netcdf_files],
      dirs |-> dirs \cup {from \o "/weather_data", path_netcdf_files}]

SavingPathArgs == {"None", BasePath}

CreateSavingPath ==
  /\ ops < MaxOps
  /\ ex.state = "ok"
  /\ \E saving_path \in SavingPathArgs :
       LET r == create_saving_path(ex, fs.dirs, saving_path)
       IN /\ ex' = r.ex
          /\ fs' = [fs EXCEPT !.dirs = r.dirs]
          /\ pathCalls' = Append(pathCalls, saving_path)
  /\ ops' = ops + 1
  /\ UNCHANGED <<site, retrieveCount, requests, dl, okCalls,
                 retrieveFaithful, netcdfVars, tableVars, weatherVars>>

(***************************************************************************)
(* api/weather_api.py: WeatherData.  Timestamps are instants counted in    *)
(* quarter hours from the start of the first simulation year in the site's *)
(* timezone; the simulation year is scaled down to SlotsPerYear half       *)
(* hours.                                                                  *)
(***************************************************************************)
\* the '30min' frequency, in quarter hours
HalfHour == 2

\* WeatherData.start_date: Y-01-01 00:00
start_date(year) == (year - FirstYear) * SlotsPerYear * HalfHour

\* WeatherData.end_date: Y-12-31 23:30
end_date(year) == start_date(year + 1) - HalfHour

\* pd.date_range(start, end, freq)
date_range(start, end, freq) ==
  [k \in 1..(IF end < start THEN 0 ELSE ((end - start) \div freq) + 1) |->
     start + (k - 1) * freq]

\* WeatherData.get_date_range
get_date_range(year) == date_range(start_date(year), end_date(year), HalfHour)

SeqRange(q) == {q[i] : i \in 1..Len(q)}

SetMin(S) == CHOOSE x \in S : \A y \in S : x <= y
SetMax(S) == CHOOSE x \in S : \A y \in S : x >= y

\* e2s_functions.resample_and_fill_missing_data(dataf, freq): the index of
\* a resample at freq, every bin from the one of the first timestamp to the
\* one of the last
resample_and_fill_missing_data(index, freq) ==
  IF Len(index) = 0 THEN <<>>
  ELSE LET lo == SetMin(SeqRange(index))
           hi == SetMax(SeqRange(index))
       IN date_range(lo - (lo % freq), hi - (hi % freq), freq)

\* pd.concat([a, b], axis=1) on the index: an outer join
concat_axis1(a, b) == SortedSeq(SeqRange(a) \cup SeqRange(b))

\* e2s_functions.fill_missing_data(dataf): values are filled, rows are kept
fill_missing_data(index) == index

\* WeatherData.weather_data_processing, on the index of the table
weather_data_processing(index, year) ==
  LET date_range_ == get_date_range(year)
      dataf == resample_and_fill_missing_data(index, HalfHour)
  IN fill_missing_data(concat_axis1(date_range_, dataf))

\* DataFrame[cols].sum(axis=1) of one row: missing cells are skipped
RECURSIVE RowSum_wrong(_)
RowSum_wrong(cells) ==
  IF Len(cells) <= 1 THEN Num(0)
  ELSE Add(IF IsNaN(Head(cells)) THEN Num(0) ELSE Head(cells),
           RowSum_wrong(Tail(cells)))

RECURSIVE RowSum(_)
RowSum(cells) ==
  IF Len(cells) = 0 THEN Num(0)
  ELSE Add(IF IsNaN(Head(cells)) THEN Num(0) ELSE Head(cells),
           RowSum(Tail(cells)))

POA_INDEX == "utc_time"

\* WeatherData.format_sarah_weather_data(dataf)
format_sarah_weather_data(dataf, timezone) ==
  IF ~dataf.hasPoaColumns
  THEN [status |-> "KeyError", frame |-> dataf]
  ELSE [status |-> "ok",
        frame |->
          [dataf EXCEPT
             !.rows = [i \in 1..Len(dataf.rows) |->
                [poa_direct |-> dataf.rows[i].poa_direct,
                 poa_ground_diffuse |-> dataf.rows[i].poa_ground_diffuse,
                 poa_sky_diffuse |-> dataf.rows[i].poa_sky_diffuse,
                 poa_global |-> RowSum(<<dataf.rows[i].poa_direct,
                                         dataf.rows[i].poa_ground_diffuse,
                                         dataf.rows[i].poa_sky_diffuse>>),
                 poa_diffuse |-> RowSum(<<dataf.rows[i].poa_ground_diffuse,
                                          dataf.rows[i].poa_sky_diffuse>>)]],
             !.indexName = POA_INDEX,
             !.tz = timezone]]

\* the tags of enums.WeatherDataSource
WeatherDataSource == {"TMY", "PVLIB_CLEARSKY", "ERA5", "PVGISSARAH2"}

\* values a source argument or field may hold besides the enum members
None == "None"
SourceTags == WeatherDataSource \cup {None, "UNRECOGNIZED"}

\* weather_func_dict
weather_func_dict ==
  [tag \in WeatherDataSource |->
     CASE tag = "PVLIB_CLEARSKY" -> "get_clearsky_solar_data"
       [] tag = "ERA5" -> "get_weather_data_from_era5"
       [] tag = "PVGISSARAH2" -> "get_sarah2_weather_data"
       [] tag = "TMY" -> "get_tmy_weather_data"]

\* weather_func_dict.get(tag, self.get_tmy_weather_data)
dict_get(tag) ==
  IF tag \in DOMAIN weather_func_dict THEN weather_func_dict[tag]
  ELSE "get_tmy_weather_data"

\* if weather_data_source is None: weather_data_source = self.weather_data_source
EffectiveSource_wrong(arg, field) == arg

EffectiveSource(arg, field) == IF arg = None THEN field ELSE arg

\* self.weather_data_source.name.lower(); only enum members have a name
NameLower(tag) ==
  CASE tag = "TMY" -> "tmy"
    [] tag = "PVLIB_CLEARSKY" -> "pvlib_clearsky"
    [] tag = "ERA5" -> "era5"
    [] tag = "PVGISSARAH2" -> "pvgissarah2"

\* WeatherData.save_weather_data: the path written
SavePath(w) ==
  (w.saving_path \o "/weather_data") \o "/" \o
    ("Weather_data_" \o NameLower(w.weather_data_source) \o "_"
       \o ToString(w.simulation_year) \o ".csv")

SiteNames == {"Demo_site", "Other_site"}

Geolocation(name) == [name |-> name, latitude |-> 0, longitude |-> 0]

WeatherDataObject(name, year, source) ==
  [geolocation |-> Geolocation(name), simulation_year |-> year,
   weather_data_source |-> source, saving_path |-> BasePath,
   timezone |-> "Europe/London"]

\* what get_weather_data_from_era5 met when it read the two raw files
NoEra5Read ==
  [read |-> FALSE, radiationMissing |-> FALSE, temperatureMissing |-> FALSE,
   ghiRows |-> 0, temperatureRows |-> 0, status |-> "none", rows |-> 0,
   temp_air |-> FALSE]

NoWeatherCall ==
  [op |-> "none", arg |-> None, field |-> None, strategies |-> <<>>,
   status |-> "none", index |-> <<>>, path |-> "", year |-> 0,
   era5 |-> NoEra5Read]

\* timestamps a provider table may carry around simulation year `year`:
\* on and off the half-hour grid, inside the year and just outside it
ProviderTimes(year) == (start_date(year) - 3)..(start_date(year + 1) + 2)

\* the indexes the providers of get_weather_data return: none, timestamps
\* of the simulation year, timestamps around it
ProviderIndexes(year) ==
  {<<>>,
   <<start_date(year), start_date(year) + 2 * HalfHour>>,
   <<start_date(year) - HalfHour, start_date(year + 1)>>}

\* what pvlib (get_solarposition, disc, get_total_irradiance) does with a
\* table of no rows
PvlibOutcomes == {"ok", "raised"}

\* the raw files that are no longer in the directory when they are read
LostFiles == SUBSET {filename_key(v) : v \in ExtractFile}

\* the second half of get_weather_data_from_era5, once download_data has
\* returned: get_ghi_data and get_temperature_data give a table of no rows
\* for a file that is not there and the hourly rows of `index` for one that
\* is; add_solar_components_to_ghi_data keeps the rows of the radiation
\* table; weather_data.loc[:, 'temp_air'] = values then sets a column of a
\* table with rows (the lengths must agree) or, on a table without rows,
\* makes the rows 0..len(values)-1 for the values
ReadRawFiles(e, files, year, index, pvlibEmpty) ==
  LET radiationMissing ==
        ~exists(files, TargetPath(e, filename_key("SOLARRADIATION"), year))
      temperatureMissing ==
        ~exists(files, TargetPath(e, filename_key("TEMPERATURE"), year))
      ghi_data == IF radiationMissing THEN <<>> ELSE index
      temperature_rows == IF temperatureMissing THEN 0 ELSE Len(index)
      status == IF Len(ghi_data) = 0 /\ pvlibEmpty = "raised"
                THEN "PvlibError"
                ELSE IF Len(ghi_data) > 0 /\ temperature_rows # Len(ghi_data)
                THEN "ValueError"
                ELSE "ok"
      positional == status = "ok" /\ Len(ghi_data) = 0 /\ temperature_rows > 0
  IN [status |-> status,
      index |-> IF status # "ok" THEN <<>>
                ELSE IF positional THEN [i \in 1..temperature_rows |-> i - 1]
                ELSE ghi_data,
      positional |-> positional,
      era5 |-> [read |-> TRUE,
                radiationMissing |-> radiationMissing,
                temperatureMissing |-> temperatureMissing,
                ghiRows |-> Len(ghi_data),
                temperatureRows |-> temperature_rows,
                status |-> status,
                rows |-> IF status # "ok" THEN 0
                         ELSE IF positional THEN temperature_rows
                         ELSE Len(ghi_data),
                temp_air |-> status = "ok"]]

\* WeatherData.get_weather_data_from_era5: a new extractor, download_data,
\* then the tables read from the two raw files; `lost` are the files gone
\* from the directory by the time they are read
get_weather_data_from_era5(w, clientOutcome, outcome, lost, index, pvlib) ==
  LET e == PostInit(w.geolocation, w.saving_path, FALSE, clientOutcome)
      st0 == [files |-> fs.files, count |-> retrieveCount,
              requests |-> requests, issued |-> <<>>,
              faithful |-> retrieveFaithful, status |-> "ok"]
      st == IF e.state = "ok"
            THEN DownloadLoop(e, st0, 1, w.simulation_year, outcome)
            ELSE [st0 EXCEPT !.status = "Exception"]
      atRead == IF st.status = "ok"
                THEN {f \in st.files :
                        \A v \in lost :
                           f # TargetPath(e, v, w.simulation_year)}
                ELSE st.files
      read == IF st.status = "ok"
              THEN ReadRawFiles(e, atRead, w.simulation_year, index, pvlib)
              ELSE [status |-> st.status, index |-> <<>>,
                    positional |-> FALSE, era5 |-> NoEra5Read]
  IN [status |-> read.status,
      index |-> read.index,
      positional |-> read.positional,
      era5 |-> read.era5,
      ex |-> e, files |-> atRead, count |-> st.count,
      requests |-> st.requests, faithful |-> st.faithful,
      dirs |-> MkdirParents(fs.dirs, e, w.saving_path)]

\* the strategies that only call a provider
ProviderStrategy(index) ==
  [status |-> "ok", index |-> index, positional |-> FALSE,
   era5 |-> NoEra5Read, ex |-> ex, files |-> fs.files,
   count |-> retrieveCount, requests |-> requests,
   faithful |-> retrieveFaithful, dirs |-> fs.dirs]

\* WeatherData(geolocation, simulation_year, weather_data_source, saving_path)
NewWeatherData ==
  /\ wops < MaxWeatherOps
  /\ \E name \in SiteNames, year \in Years, source \in SourceTags :
       /\ wd' = WeatherDataObject(name, year, source)
       /\ site' = Geolocation(name)
  /\ wops' = wops + 1
  /\ UNCHANGED <<csvFiles, runs, wcall, ex, fs, retrieveCount, requests, dl,
                 okCalls, retrieveFaithful, ops, pathCalls, netcdfVars,
                 tableVars>>

\* get_weather_data after weather_func() returned or raised r:
\* weather_data_processing (the resample raises TypeError on an index of
\* positions), then save_weather_data
FinishGetWeatherData(arg, weather_func, r) ==
  LET processed == r.status = "ok" /\ ~r.positional
      saved == processed /\ wd.weather_data_source \in WeatherDataSource
      path == IF saved THEN SavePath(wd) ELSE ""
  IN /\ wcall' = [op |-> "get_weather_data", arg |-> arg,
                  field |-> wd.weather_data_source,
                  strategies |-> <<weather_func>>,
                  status |-> IF r.status # "ok" THEN r.status
                             ELSE IF r.positional THEN "TypeError"
                             ELSE IF saved THEN "ok" ELSE "AttributeError",
                  era5 |-> r.era5,
                  index |-> IF processed
                            THEN weather_data_processing(r.index,
                                                         wd.simulation_year)
                            ELSE <<>>,
                  path |-> path,
                  year |-> wd.simulation_year]
     /\ IF saved
        THEN /\ csvFiles' =
                  [p \in DOMAIN csvFiles \cup {path} |->
                     IF p = path
                     THEN [name |-> wd.geolocation.name,
                           strategy |-> weather_func,
                           year |-> wd.simulation_year]
                     ELSE csvFiles[p]]
             /\ runs' = runs \cup
                  {[name |-> wd.geolocation.name,
                    source |-> wd.weather_data_source,
                    year |-> wd.simulation_year,
                    path |-> path]}
        ELSE UNCHANGED <<csvFiles, runs>>
     /\ ex' = r.ex
     /\ pathCalls' = IF weather_func = "get_weather_data_from_era5"
                      THEN << >> ELSE pathCalls
     /\ fs' = [dirs |-> IF saved
                        THEN r.dirs \cup {wd.saving_path \o "/weather_data"}
                        ELSE r.dirs,
               files |-> r.files]
     /\ retrieveCount' = r.count
     /\ requests' = r.requests
     /\ retrieveFaithful' = r.faithful

\* WeatherData.get_weather_data(weather_data_source), where the raw files
\* gone before the read are one of `losses` and pvlib treats a table of no
\* rows as one of `pvlibOutcomes`
GetWeatherDataWith(losses, pvlibOutcomes) ==
  /\ wops < MaxWeatherOps
  /\ wops' = wops + 1
  /\ \E arg \in SourceTags, index \in ProviderIndexes(wd.simulation_year) :
       LET weather_data_source == EffectiveSource(arg, wd.weather_data_source)
           weather_func == dict_get(weather_data_source)
       IN IF weather_func = "get_weather_data_from_era5"
          THEN \E r \in {get_weather_data_from_era5(wd, clientOutcome,
                                                       outcome, lost, index,
                                                       pvlibEmpty) :
                            clientOutcome \in ClientOutcomes,
                            outcome \in RetrieveOutcomes,
                            lost \in losses,
                            pvlibEmpty \in pvlibOutcomes} :
                 FinishGetWeatherData(arg, weather_func, r)
          ELSE FinishGetWeatherData(arg, weather_func, ProviderStrategy(index))
  /\ UNCHANGED <<wd, site, dl, okCalls, ops, netcdfVars, tableVars>>

\* get_weather_data while the raw files stay in the directory and pvlib
\* accepts every table
GetWeatherData == GetWeatherDataWith({{}}, {"ok"})

\* get_weather_data in general
GetWeatherDataLosingFiles == GetWeatherDataWith(LostFiles, PvlibOutcomes)

(***************************************************************************)
(* Tables the table functions of weather_api.py are applied to.            *)
(***************************************************************************)
PoaValues == {NaN, Num(1), Num(2)}

PoaRow(d, g, s) ==
  [poa_direct |-> d, poa_ground_diffuse |-> g, poa_sky_diffuse |-> s]

NoTable ==
  [hasPoaColumns |-> FALSE, index |-> <<>>, rows |-> <<>>,
   indexName |-> "time", tz |-> "UTC", year |-> FirstYear]

NoTableCall == [op |-> "none", status |-> "none", frame |-> NoTable]

\* a provider table of get_pvgis_hourly: hourly rows of the three components
SarahTable(n, f) ==
  [NoTable EXCEPT !.hasPoaColumns = TRUE,
                  !.index = [i \in 1..n |-> 2 * HalfHour * (i - 1)],
                  !.rows = [i \in 1..n |-> PoaRow(f[i][1], f[i][2], f[i][3])]]

\* a table with any timestamps around simulation year y
CalendarTable(S, y) == [NoTable EXCEPT !.index = SortedSeq(S), !.year = y]

TableInputs ==
  /\ \/ \E n \in 0..MaxRows :
          \E f \in [1..n -> PoaValues \X PoaValues \X PoaValues] :
             tbl = SarahTable(n, f)
     \/ \E y \in Years :
          \E S \in SUBSET ProviderTimes(y) :
             tbl = CalendarTable(S, y)
  /\ tblCall = NoTableCall

FormatSarahWeatherData ==
  /\ tblCall.op = "none"
  /\ LET r == format_sarah_weather_data(tbl, wd.timezone)
     IN tblCall' = [op |-> "format_sarah_weather_data",
                    status |-> r.status, frame |-> r.frame]
  /\ UNCHANGED <<tbl, netcdfVars, era5Vars, weatherVars>>

WeatherDataProcessing ==
  /\ tblCall.op = "none"
  /\ tblCall' = [op |-> "weather_data_processing", status |-> "ok",
                 frame |-> [tbl EXCEPT !.index =
                              weather_data_processing(tbl.index, tbl.year)]]
  /\ UNCHANGED <<tbl, netcdfVars, era5Vars, weatherVars>>

(***************************************************************************)
(* Specifications.                                                         *)
(***************************************************************************)
IdleNetcdf ==
  /\ ncCall = [op |-> "none", result |-> Raised("none", FALSE)]
  /\ ncFile = [exists |-> FALSE,
               raw |-> [hasExpver |-> FALSE, var |-> "ssr", rows |-> <<>>]]

IdleTables == tbl = NoTable /\ tblCall = NoTableCall

IdleWeather ==
  /\ wd = WeatherDataObject("Demo_site", FirstYear, "ERA5")
  /\ csvFiles = << >>
  /\ runs = {}
  /\ wcall = NoWeatherCall
  /\ wops = 0

\* functions.py applied once to a raw file
InitNetcdf == NetcdfInputs /\ IdleEra5 /\ IdleTables /\ IdleWeather

NextNetcdf == GetRadiationData \/ GetTemperatureData \/ LoadSingleNetcdfFile

SpecNetcdf == InitNetcdf /\ [][NextNetcdf]_vars

\* one site, extractors built for it and downloads run on them
InitEra5 == InitEra5Model /\ IdleNetcdf /\ IdleTables /\ IdleWeather

NextEra5 == ConstructExtractor \/ DownloadData

SpecEra5 == InitEra5 /\ [][NextEra5]_vars

\* the same, with create_saving_path called on the extractors
NextEra5Path == ConstructExtractor \/ DownloadData \/ CreateSavingPath

SpecEra5Path == InitEra5 /\ [][NextEra5Path]_vars

\* a table function of weather_api.py applied once to a table
InitTables == TableInputs /\ IdleNetcdf /\ IdleEra5 /\ IdleWeather

NextTables == FormatSarahWeatherData \/ WeatherDataProcessing

SpecTables == InitTables /\ [][NextTables]_vars

\* WeatherData objects built under one saving path and their runs
InitWeather ==
  /\ \E name \in SiteNames, year \in Years, source \in SourceTags :
       /\ wd = WeatherDataObject(name, year, source)
       /\ site = Geolocation(name)
  /\ csvFiles = << >>
  /\ runs = {}
  /\ wcall = NoWeatherCall
  /\ wops = 0
  /\ ex = [NoExtractor EXCEPT !.location = site]
  /\ fs = [dirs |-> {}, files |-> {}]
  /\ retrieveCount = << >>
  /\ requests = {}
  /\ dl = NoDownload
  /\ okCalls = [y \in Years |-> 0]
  /\ retrieveFaithful = TRUE
  /\ ops = 0
  /\ pathCalls = << >>
  /\ IdleNetcdf /\ IdleTables

NextWeather == NewWeatherData \/ GetWeatherData

SpecWeather == InitWeather /\ [][NextWeather]_vars

\* one WeatherData object and the get_weather_data calls made on it
NextWeatherObject == GetWeatherData

SpecWeatherObject == InitWeather /\ [][NextWeatherObject]_vars

\* the same, with raw files that may be gone when they are read
NextWeatherFiles == GetWeatherDataLosingFiles

SpecWeatherFiles == InitWeather /\ [][NextWeatherFiles]_vars

(***************************************************************************)
(* Properties of the NetCDF post-processing functions.                     *)
(***************************************************************************)
RadiationCalled == ncCall.op = "get_radiation_data"
TemperatureCalled == ncCall.op = "get_temperature_data"

\* C2 (missing-file tolerance): with no file at the path, get_radiation_data
\* and get_temperature_data return normally without trying to load the
\* file, and the table returned has zero rows and the single column named
\* by the output schema of the variable.
C2_MissingFileTolerance ==
  (~ncFile.exists /\ (RadiationCalled \/ TemperatureCalled)) =>
     /\ ncCall.result.status = "ok"
     /\ ~ncCall.result.loaded
     /\ Len(ncCall.result.frame.index) = 0
     /\ Len(ncCall.result.frame.values) = 0
     /\ ncCall.result.frame.columns =
          IF RadiationCalled THEN <<"Global irradiance (W/m2)">>
          ELSE <<"Air temperature (deg C)">>

C2_Witness ==
  /\ ~ncFile.exists
  /\ RadiationCalled
  /\ ncCall.result.frame.columns = <<"Global irradiance (W/m2)">>

\* the cumulative series get_radiation_data reads from the file
CumulativeSeries == load_single_netcdf_file(ncFile, "SOLARRADIATION").frame.values

ExampleSeries == <<Num(0), Num(3600), Num(7200), Num(10800)>>

\* C5 (accumulation de-differencing): for a cumulative series c read from an
\* existing file the result r has r[0] = 0 and r[i] = max(c[i]-c[i-1], 0)/3600
\* for i >= 1 (0 where c[i] or c[i-1] is missing), every value of r is a
\* number >= 0, and [0, 3600, 7200, 10800] gives [0, 1, 1, 1].
C5_Dedifferencing ==
  (RadiationCalled /\ ncFile.exists /\ ncCall.result.status = "ok") =>
     LET c == CumulativeSeries
         r == ncCall.result.frame.values
     IN /\ Len(r) = Len(c)
        /\ Len(c) >= 1 => r[1] = Num(0)
        /\ \A i \in 2..Len(c) :
             IF IsNaN(c[i]) \/ IsNaN(c[i - 1]) THEN r[i] = Num(0)
             ELSE LET d == c[i].num - c[i - 1].num
                  IN r[i] = Rat(IF d > 0 THEN d ELSE 0, 3600)
        /\ \A i \in 1..Len(r) : ~IsNaN(r[i]) /\ r[i].num >= 0 /\ r[i].den > 0
        /\ c = ExampleSeries => r = <<Num(0), Num(1), Num(1), Num(1)>>

C5_Witness ==
  /\ RadiationCalled /\ ncFile.exists /\ ncCall.result.status = "ok"
  /\ Len(CumulativeSeries) = 3
  /\ CumulativeSeries[1] = Num(7200)
  /\ CumulativeSeries[2] = Num(0)
  /\ CumulativeSeries[3] = Num(1800)
  /\ ncCall.result.frame.values = <<Num(0), Num(0), Rat(1, 2)>>

C5_ExampleWitness ==
  /\ RadiationCalled /\ ncFile.exists
  /\ CumulativeSeries = ExampleSeries
  /\ ncCall.result.frame.values = <<Num(0), Num(1), Num(1), Num(1)>>

\* the value the raw table holds at time t for experiment version v
\* (missing when it has no such row)
VersionValue(t, v) ==
  LET rows == ncFile.raw.rows
      hit == {i \in 1..Len(rows) : rows[i].time = t /\ rows[i].expver = v}
  IN IF hit = {} THEN NaN ELSE rows[CHOOSE i \in hit : TRUE].val

VersionTimes(v) ==
  {ncFile.raw.rows[i].time :
     i \in {j \in 1..Len(ncFile.raw.rows) : ncFile.raw.rows[j].expver = v}}

LoadCalledOnExpver ==
  /\ ncCall.op = "load_single_netcdf_file"
  /\ ncCall.result.status = "ok"
  /\ ncFile.raw.hasExpver

\* C6 (experiment-version merge): on a table with an experiment-version
\* column, load_single_netcdf_file returns one value per timestamp of the
\* union of the timestamps of versions 1 and 5: the version-1 value where it
\* is not missing, else the version-5 value; other versions add nothing.
C6_ExpverMerge ==
  LoadCalledOnExpver =>
     LET fr == ncCall.result.frame
         T == VersionTimes(1) \cup VersionTimes(5)
     IN /\ Len(fr.index) = Cardinality(T)
        /\ {fr.index[i] : i \in 1..Len(fr.index)} = T
        /\ Len(fr.values) = Len(fr.index)
        /\ \A i \in 1..Len(fr.index) :
             fr.values[i] =
               IF ~IsNaN(VersionValue(fr.index[i], 1))
               THEN VersionValue(fr.index[i], 1)
               ELSE VersionValue(fr.index[i], 5)

C6_Witness ==
  /\ LoadCalledOnExpver
  /\ \E t \in VersionTimes(1) \cap VersionTimes(5) \cap VersionTimes(2) :
       /\ ~IsNaN(VersionValue(t, 1)) /\ ~IsNaN(VersionValue(t, 5))
       /\ VersionValue(t, 1) # VersionValue(t, 5)
  /\ \E t \in VersionTimes(1) \cap VersionTimes(5) :
       IsNaN(VersionValue(t, 1)) /\ ~IsNaN(VersionValue(t, 5))
  /\ Len(ncCall.result.frame.index) = 2

(***************************************************************************)
(* Properties of the ERA5 extractor.                                       *)
(***************************************************************************)
\* the raw file of a variable and year, as the filesystem layout names it
RawFilePath(variable, year) ==
  "data/weather_data/" \o site.name \o "_netcdf_data/" \o site.name \o "_"
    \o filename_key(variable) \o "_" \o ToString(year) \o ".nc"

RetrieveCalls(variable, year) ==
  IF RawFilePath(variable, year) \in DOMAIN retrieveCount
  THEN retrieveCount[RawFilePath(variable, year)] ELSE 0

\* the variables of the order of download, whose file is not in files
AbsentVariables(files, year) ==
  LET absent(v) == RawFilePath(v, year) \notin files
  IN (IF absent("SOLARRADIATION")
      THEN <<filename_key("SOLARRADIATION")>> ELSE <<>>)
     \o (IF absent("TEMPERATURE")
         THEN <<filename_key("TEMPERATURE")>> ELSE <<>>)

\* C1 (idempotent download): as long as every retrieve created its target,
\* retrieve has been called at most once per (variable, year), exactly once
\* for each variable of a year whose download_data has returned; a call
\* issues one retrieve per variable whose file is absent, and a second or
\* later call for a year issues none.
C1_IdempotentDownload ==
  retrieveFaithful =>
     /\ \A v \in ExtractFile, y \in Years :
          /\ RetrieveCalls(v, y) <= 1
          /\ okCalls[y] >= 1 => RetrieveCalls(v, y) = 1
     /\ DOMAIN retrieveCount \subseteq
          {RawFilePath(v, y) : v \in ExtractFile, y \in Years}
     /\ dl.status = "ok" =>
          /\ dl.issued = AbsentVariables(dl.before, dl.year)
          /\ dl.nth >= 2 => dl.issued = <<>>

C1_Witness ==
  /\ retrieveFaithful
  /\ dl.status = "ok" /\ dl.nth = 2 /\ dl.issued = <<>>
  /\ okCalls[dl.year] = 2
  /\ \A v \in ExtractFile : RetrieveCalls(v, dl.year) = 1

\* C9 (client construction failure), as claimed: whatever cdsapi.Client
\* raises, the extractor is constructed with api_client None and the netcdf
\* directory made; a download_data on it fails exactly when it needs a
\* retrieve.
C9_ClientFailureCaught ==
  /\ ex.clientOutcome \in {"AssertionError", "Exception"} =>
        /\ ex.state = "ok"
        /\ ex.api_client = "None"
        /\ NetcdfDir(BasePath, site) \in fs.dirs
  /\ (dl.status # "none" /\ dl.client = "None") =>
        (dl.status = "ok" <=> AbsentVariables(dl.before, dl.year) = <<>>)

\* what the code does for the one failure it catches
C9_AssertionErrorCaught ==
  /\ ex.clientOutcome = "AssertionError" =>
        /\ ex.state = "ok"
        /\ ex.api_client = "None"
        /\ NetcdfDir(BasePath, site) \in fs.dirs
  /\ (dl.status # "none" /\ dl.client = "None") =>
        /\ dl.status = "ok" <=> AbsentVariables(dl.before, dl.year) = <<>>
        /\ dl.status # "ok" => dl.status = "AttributeError" /\ dl.issued = <<>>
  /\ ex.clientOutcome = "Exception" => ex.state = "raised"

C9_AssertionErrorWitness ==
  /\ ex.clientOutcome = "AssertionError"
  /\ dl.client = "None" /\ dl.status = "ok"

\* the buffered coordinate of the bounding box
Buffered(x) == IF x > 0 THEN x - 1 ELSE x + 1

\* C10 (bounding box): the area of every retrieve request is
\* [lat, lon, b(lat), b(lon)] with b(x) = x - 0.01 for x > 0 and x + 0.01
\* otherwise, each buffered coordinate 0.01 away from its original, and the
\* location of the extractor keeps its latitude and longitude.
C10_BoundingBox ==
  /\ \A r \in requests :
       /\ r.area = <<site.latitude, site.longitude,
                     Buffered(site.latitude), Buffered(site.longitude)>>
       /\ Abs(r.area[3] - r.area[1]) = 1
       /\ Abs(r.area[4] - r.area[2]) = 1
       /\ site.latitude = 0 => r.area[3] = 1
  /\ ex.state = "ok" =>
       /\ ex.location.latitude = site.latitude
       /\ ex.location.longitude = site.longitude
       /\ get_box_coordinates(ex.location) =
            <<site.latitude, site.longitude,
              Buffered(site.latitude), Buffered(site.longitude)>>

C10_Witness ==
  /\ site.latitude = 0 /\ site.longitude < 0
  /\ \E r \in requests : r.area = <<0, site.longitude, 1, site.longitude + 1>>
  /\ dl.status = "ok" /\ Len(dl.issued) = 2

\* the directory of the raw files, as the filesystem layout names it
RawFileDir == "data/weather_data/" \o site.name \o "_netcdf_data"

\* only create_saving_path() without an argument was called on the
\* extractor since its construction
OnlyNoArgumentCalls ==
  /\ ex.state = "ok"
  /\ \A i \in 1..Len(pathCalls) : pathCalls[i] = "None"

\* C11: after an extractor is constructed with saving path P, however many
\* times create_saving_path() is then called without an argument, saving_path
\* stays P/weather_data/<location_name>_netcdf_data, download_data writes to
\* (and the readers read from) the files of that directory, and no directory
\* other than it and its parent has been created.
C11_IdempotentDirectory ==
  OnlyNoArgumentCalls =>
    /\ ex.saving_path = RawFileDir
    /\ \A v \in ExtractFile, y \in Years :
         TargetPath(ex, filename_key(v), y) = RawFilePath(v, y)
    /\ fs.dirs \subseteq {"data/weather_data", RawFileDir}

(***************************************************************************)
(* Properties of the table functions of WeatherData.                       *)
(***************************************************************************)
\* the half-hourly grid of simulation year y: Y-01-01 00:00 .. Y-12-31 23:30
YearGrid(y) == [k \in 1..SlotsPerYear |-> start_date(y) + 2 * (k - 1)]

ProcessingCalled == tblCall.op = "weather_data_processing"

\* C3 (calendar completeness), as claimed: whatever timestamps the input
\* table carries, the index weather_data_processing returns is exactly the
\* half-hourly grid of the simulation year, each timestamp once.
C3_CalendarCompleteness ==
  ProcessingCalled => tblCall.frame.index = YearGrid(tbl.year)

\* what the code gives: the grid together with every half-hour bin from the
\* first to the last timestamp of the input, so the grid exactly when the
\* input lies inside the year
C3_GridWhenInputInsideYear ==
  ProcessingCalled =>
     /\ SeqRange(YearGrid(tbl.year)) \subseteq SeqRange(tblCall.frame.index)
     /\ Cardinality(SeqRange(tblCall.frame.index)) = Len(tblCall.frame.index)
     /\ (\A i \in 1..Len(tbl.index) :
           /\ tbl.index[i] >= start_date(tbl.year)
           /\ tbl.index[i] < start_date(tbl.year + 1))
        => tblCall.frame.index = YearGrid(tbl.year)

C3_InsideYearWitness ==
  /\ ProcessingCalled
  /\ Len(tbl.index) = 2
  /\ tbl.index[1] = start_date(tbl.year) + 1
  /\ tbl.index[2] = start_date(tbl.year + 1) - 1
  /\ tblCall.frame.index = YearGrid(tbl.year)

SarahFormatted ==
  tblCall.op = "format_sarah_weather_data" /\ tblCall.status = "ok"

ComponentsKept(i) ==
  /\ tblCall.frame.rows[i].poa_direct = tbl.rows[i].poa_direct
  /\ tblCall.frame.rows[i].poa_ground_diffuse = tbl.rows[i].poa_ground_diffuse
  /\ tblCall.frame.rows[i].poa_sky_diffuse = tbl.rows[i].poa_sky_diffuse

\* a missing cell counted as 0
OrZero(v) == IF IsNaN(v) THEN Num(0) ELSE v

\* C7 (POA summation), as claimed: in every row of the formatted table
\* poa_global = poa_direct + poa_ground_diffuse + poa_sky_diffuse and
\* poa_diffuse = poa_ground_diffuse + poa_sky_diffuse, the three components
\* unchanged.
C7_PoaSummation_Original ==
  SarahFormatted =>
     /\ Len(tblCall.frame.rows) = Len(tbl.rows)
     /\ \A i \in 1..Len(tbl.rows) :
          LET row == tblCall.frame.rows[i]
          IN /\ ComponentsKept(i)
             /\ row.poa_global =
                  Add(Add(row.poa_direct, row.poa_ground_diffuse),
                      row.poa_sky_diffuse)
             /\ row.poa_diffuse =
                  Add(row.poa_ground_diffuse, row.poa_sky_diffuse)

\* C7 (POA summation), amended: the two equalities hold in every row whose
\* three components are all present; a missing component is skipped by the
\* sums (counts as 0), so such a row gets a number where the plain sum is
\* missing; the three components are unchanged in every row.
C7_PoaSummation ==
  SarahFormatted =>
     /\ Len(tblCall.frame.rows) = Len(tbl.rows)
     /\ \A i \in 1..Len(tbl.rows) :
          LET row == tblCall.frame.rows[i]
              d == row.poa_direct
              g == row.poa_ground_diffuse
              k == row.poa_sky_diffuse
          IN /\ ComponentsKept(i)
             /\ (~IsNaN(d) /\ ~IsNaN(g) /\ ~IsNaN(k)) =>
                  /\ row.poa_global = Num(d.num + g.num + k.num)
                  /\ row.poa_diffuse = Num(g.num + k.num)
             /\ row.poa_global = Add(Add(OrZero(d), OrZero(g)), OrZero(k))
             /\ row.poa_diffuse = Add(OrZero(g), OrZero(k))

C7_Witness ==
  /\ SarahFormatted
  /\ Len(tbl.rows) = 2
  /\ tbl.rows[1] = PoaRow(Num(1), Num(2), Num(2))
  /\ tblCall.frame.rows[1].poa_global = Num(5)
  /\ tblCall.frame.rows[1].poa_diffuse = Num(4)
  /\ tbl.rows[2] = PoaRow(Num(2), NaN, Num(1))
  /\ tblCall.frame.rows[2].poa_global = Num(3)

(***************************************************************************)
(* Properties of get_weather_data.                                         *)
(***************************************************************************)
WeatherDataCalled == wcall.op = "get_weather_data"

\* the strategy of a tag of the enumeration
StrategyOf(tag) ==
  CASE tag = "TMY" -> "get_tmy_weather_data"
    [] tag = "PVLIB_CLEARSKY" -> "get_clearsky_solar_data"
    [] tag = "ERA5" -> "get_weather_data_from_era5"
    [] tag = "PVGISSARAH2" -> "get_sarah2_weather_data"
    [] OTHER -> "get_tmy_weather_data"

\* C4 (source selection), as claimed: exactly one strategy runs, the one of
\* the source tag; with an unrecognized tag, or with no argument (None),
\* get_tmy_weather_data runs.
C4_SourceSelection_Original ==
  WeatherDataCalled =>
     /\ Len(wcall.strategies) = 1
     /\ wcall.strategies[1] =
          IF wcall.arg = "None" THEN "get_tmy_weather_data"
          ELSE StrategyOf(wcall.arg)

\* C4 (source selection), amended: exactly one strategy runs; with no
\* argument (None) the tag is the weather_data_source the object was
\* constructed with (ERA5 by default); the strategy of that tag runs, and
\* get_tmy_weather_data runs when the tag is not one of the four.
C4_SourceSelection ==
  WeatherDataCalled =>
     /\ Len(wcall.strategies) = 1
     /\ wcall.strategies[1] =
          IF wcall.arg = "None" THEN StrategyOf(wcall.field)
          ELSE StrategyOf(wcall.arg)

C4_Witness ==
  /\ WeatherDataCalled
  /\ wcall.arg = "None" /\ wcall.field = "ERA5"
  /\ wcall.strategies = <<"get_weather_data_from_era5">>
  /\ wcall.status = "ok"

C4_UnrecognizedWitness ==
  /\ WeatherDataCalled
  /\ wcall.arg = "UNRECOGNIZED" /\ wcall.field = "ERA5"
  /\ wcall.strategies = <<"get_tmy_weather_data">>

\* C8 (persistence key), as claimed: two runs under the same saving path
\* that differ in location name, source or simulation year write different
\* files.
C8_PersistenceKey ==
  \A r1 \in runs, r2 \in runs :
     (r1.name # r2.name \/ r1.source # r2.source \/ r1.year # r2.year)
        => r1.path # r2.path

\* what the code gives: the file is keyed by source and year only
C8_KeyedBySourceAndYear ==
  \A r1 \in runs, r2 \in runs :
     (r1.source # r2.source \/ r1.year # r2.year) <=> r1.path # r2.path

\* get_weather_data_from_era5 got past download_data and read the raw files
Era5ReadDone ==
  /\ WeatherDataCalled
  /\ wcall.strategies = <<"get_weather_data_from_era5">>
  /\ wcall.era5.read

\* C12 (downstream tolerance of missing raw files), as claimed: whenever
\* get_weather_data_from_era5 reads the raw files and the radiation file, the
\* temperature file or both are absent, it does not raise and returns a
\* table with the temp_air column, of zero rows when the radiation table is
\* empty.
C12_DownstreamTolerance ==
  (Era5ReadDone /\ (wcall.era5.radiationMissing
                      \/ wcall.era5.temperatureMissing)) =>
     /\ wcall.era5.status = "ok"
     /\ wcall.era5.temp_air
     /\ (wcall.era5.ghiRows = 0 => wcall.era5.rows = 0)

\* what the code gives when only the temperature file is absent: the
\* assignment of no values to a table with rows raises
C12_LengthMismatchRaises ==
  (Era5ReadDone /\ ~wcall.era5.radiationMissing
     /\ wcall.era5.temperatureMissing /\ wcall.era5.ghiRows > 0) =>
     wcall.era5.status = "ValueError"

\* the source tag a strategy of weather_func_dict is registered under
TagOfStrategy(weather_func) ==
  CHOOSE tag \in WeatherDataSource : weather_func_dict[tag] = weather_func

\* C13 (saved file names the source actually used), as claimed: for every
\* get_weather_data(s) call that saves, the <source> part of the written
\* file Weather_data_<source>_<year>.csv is the tag of the strategy that
\* produced the saved table.
C13_FileNamesSourceUsed ==
  (WeatherDataCalled /\ wcall.status = "ok") =>
     /\ wcall.path \in DOMAIN csvFiles
     /\ wcall.path =
          "data/weather_data/Weather_data_"
            \o NameLower(TagOfStrategy(csvFiles[wcall.path].strategy))
            \o "_" \o ToString(wcall.year) \o ".csv"

\* what the code gives: the file is named after the constructed source
C13_FileNamesConstructedSource ==
  (WeatherDataCalled /\ wcall.status = "ok") =>
     wcall.path =
       "data/weather_data/Weather_data_" \o NameLower(wcall.field)
         \o "_" \o ToString(wcall.year) \o ".csv"

====
